---- MODULE Spec2Model ----
(***************************************************************************)
(* Model of the podcast catalog and identifier generator of podcasts-cli:  *)
(* lib/generators/id.py, lib/models/podcast.py, lib/commands.py, main.py,  *)
(* config.py.  The two state files (podcast_list.json, id_cache.json) and  *)
(* the artifact files are the persistent state; every command loads them   *)
(* afresh, as each CLI invocation is a new process.                        *)
(***************************************************************************)
EXTENDS Integers, Sequences, FiniteSets, TLC

\* ---------------------------------------------------------------- bounds
MaxFaults == 1       \* failing file writes explored in one run
MaxGenerated == 2    \* direct generate_id calls per base in one run
MaxNameLen == 3      \* length of the names tried with _clean_name
MaxTitleLen == 22    \* length of the video titles tried with _extract_speakers

\* ------------------------------------------------------------ characters
UpperCase == <<"A","B","C","D","E","F","G","H","I","J","K","L","M",
               "N","O","P","Q","R","S","T","U","V","W","X","Y","Z">>
LowerCase == <<"a","b","c","d","e","f","g","h","i","j","k","l","m",
               "n","o","p","q","r","s","t","u","v","w","x","y","z">>
DigitChars == {"0","1","2","3","4","5","6","7","8","9"}

\* str.lower() on one character
ToLower(c) ==
  IF \E i \in 1..26 : UpperCase[i] = c
  THEN LowerCase[CHOOSE i \in 1..26 : UpperCase[i] = c]
  ELSE c

\* the character class [a-zA-Z0-9] of the regular expression in _clean_name
IsAlnum(c) ==
  \/ \E i \in 1..26 : UpperCase[i] = c \/ LowerCase[i] = c
  \/ c \in DigitChars

\* re.sub(r'_+', '_', s): every run of underscores becomes one underscore
RECURSIVE CollapseUnderscores(_)
CollapseUnderscores(s) ==
  IF Len(s) <= 1 THEN s
  ELSE IF s[1] = "_" /\ s[2] = "_" THEN CollapseUnderscores(Tail(s))
  ELSE <<s[1]>> \o CollapseUnderscores(Tail(s))

\* str.split('_'): the sequence of (possibly empty) pieces between underscores
RECURSIVE SplitUnderscore(_, _)
SplitUnderscore(s, acc) ==
  IF s = <<>> THEN <<acc>>
  ELSE IF s[1] = "_" THEN <<acc>> \o SplitUnderscore(Tail(s), <<>>)
  ELSE SplitUnderscore(Tail(s), Append(acc, s[1]))

\* '_'.join(parts)
RECURSIVE JoinUnderscore(_)
JoinUnderscore(parts) ==
  IF parts = <<>> THEN <<>>
  ELSE IF Len(parts) = 1 THEN parts[1]
  ELSE parts[1] \o <<"_">> \o JoinUnderscore(Tail(parts))

\* IDGenerator._clean_name
CleanName(name) ==
  LET clean1 == [i \in 1..Len(name) |->
                   IF IsAlnum(ToLower(name[i])) THEN ToLower(name[i]) ELSE "_"]
      clean2 == CollapseUnderscores(clean1)
      all == SplitUnderscore(clean2, <<>>)
      parts == SubSeq(all, 1, IF Len(all) < 2 THEN Len(all) ELSE 2)
  IN JoinUnderscore(parts)

\* f"{count:02d}": the decimal digits of count, zero-padded to width two
RECURSIVE Digits(_)
Digits(n) == IF n < 10 THEN <<n>> ELSE Digits(n \div 10) \o <<n % 10>>

Pad2(n) == IF n < 10 THEN <<0, n>> ELSE Digits(n)

\* published_at.strftime("%y_%m_%d"): two-digit year, month, day; the
\* century and the time of day are dropped.  A datetime is <<year, month,
\* day, hour>>.
DateStr(dt) == <<dt[1] % 100, dt[2], dt[3]>>

\* base = f"{date_str}_{platform}_{clean_name}"
BaseOf(platform, published_at, name) ==
  <<DateStr(published_at), platform, CleanName(name)>>

\* f"{base}_{count:02d}"
FormatId(base, count) == <<base, Pad2(count)>>

NoId == <<>>
EmptyPath == <<>>


\* ----------------------------------------------------------------- inputs
\* URLs given on the command line
Urls == {"https://yt/a", "https://yt/b"}

\* str(metadata.url): the text of the validated HttpUrl, which pydantic
\* normalises (an upper-case scheme is lowered)
NormUrl(url) == IF url = "HTTPS://yt/a" THEN "https://yt/a" ELSE url

\* --platform choices of main.py, and a platform outside them for a direct
\* call of cmd_add_podcast
Platforms == {"youtube", "vimeo", "other"}

\* Metadata records a fetch can return (title stands for the free-text
\* fields title, description, podcast_name, duration_seconds)
Metas ==
  { [title |-> "t1", published_at |-> <<2024, 1, 1, 0>>,
     name |-> <<"A", " ", "b">>, webvtt_url |-> ""],
    [title |-> "t2", published_at |-> <<2024, 1, 1, 9>>,
     name |-> <<"C", "!">>, webvtt_url |-> ""] }

AllBases == { BaseOf(p, m.published_at, m.name) : p \in Platforms, m \in Metas }

Statuses == {"pending", "processing", "complete", "error"}

\* outcome of one open(..., 'w') + json.dump: written; open failed (file
\* untouched); or failed after open truncated the file (invalid JSON left)
WriteOutcomes == {"ok", "open_failed", "truncated"}

\* ------------------------------------------------------------------ state
VARIABLES
  catalogFile,   \* dist/podcast_list.json: [state, data]
  cacheFile,     \* dist/id_cache.json: [state, data]
  files,         \* artifact files that exist on disk (set of paths)
  useObsidian,   \* dist/config.json: the use_obsidian setting (set beforehand)
  mem,           \* podcast_list.entries of the command in progress or just
                 \* returned; <<>> once a command has raised or been cancelled
  last,          \* what the last finished command did and how it ended
  genCalls,      \* per base: generate_id calls since the last reset_cache
  faults         \* number of file writes that have failed

vars == <<catalogFile, cacheFile, files, useObsidian, mem, last, genCalls,
          faults>>

\* ----------------------------------------------------------------- config
\* Config.get_episodes_dir
get_episodes_dir(obsidian) == IF obsidian THEN "vault/episodes" ELSE "dist/episodes"

\* Config.get_transcripts_dir
get_transcripts_dir(obsidian) ==
  IF obsidian THEN "vault/transcripts" ELSE "dist/transcripts"

\* Config.get_episodes_dir() / f"{episode_id}.md"
EpisodePath(obsidian, episode_id) ==
  <<get_episodes_dir(obsidian), <<episode_id, ".md">> >>

\* Config.get_transcript_path
get_transcript_path(obsidian, episode_id) ==
  <<get_transcripts_dir(obsidian), <<episode_id, "_transcript", ".md">> >>

\* ------------------------------------------------------ identifier cache
AbsentFile == [state |-> "absent", data |-> <<>>]
CorruptFile == [state |-> "corrupt", data |-> <<>>]
OkFile(d) == [state |-> "ok", data |-> d]

\* the value json.load gives for a file holding valid JSON that is not an
\* object, such as [] or null
NotADict == [k \in {<<"json", "list">>} |-> 0]

\* whether self.cache has the dict interface generate_id uses
IsDict(cache) == <<"json", "list">> \notin DOMAIN cache

\* IDGenerator._load_cache: a missing or unreadable file gives {}; any
\* JSON value that parses becomes self.cache as it is
_load_cache(file) == IF file.state = "ok" THEN file.data ELSE <<>>

\* self.cache.get(base, 0)
CacheGet(cache, base) == IF base \in DOMAIN cache THEN cache[base] ELSE 0

\* self.cache[base] = count
CachePut(cache, base, count) ==
  [b \in (DOMAIN cache) \cup {base} |-> IF b = base THEN count ELSE cache[b]]

\* IDGenerator._save_cache: the exception of a failed write is caught and
\* only logged; the file is what the failed write left behind
_save_cache(file, cache, w) ==
  IF w = "ok" THEN OkFile(cache)
  ELSE IF w = "open_failed" THEN file
  ELSE CorruptFile

\* IDGenerator().generate_id on a freshly constructed generator: the
\* identifier returned, the file afterwards, and whether an error reached
\* the caller (self.cache.get raises AttributeError when the loaded value
\* is not a dict)
generate_id(file, platform, published_at, name, w) ==
  LET base == BaseOf(platform, published_at, name)
      cache == _load_cache(file)
      count == CacheGet(cache, base) + 1
  IN IF IsDict(cache)
     THEN [id |-> FormatId(base, count),
           file |-> _save_cache(file, CachePut(cache, base, count), w),
           raised |-> FALSE]
     ELSE [id |-> NoId, file |-> file, raised |-> TRUE]

\* IDGenerator().reset_cache on a freshly constructed generator
\* variant: the cache file is left in place
reset_cache_keeps_file(file) == file

reset_cache(file) == AbsentFile

\* ---------------------------------------------------------------- catalog
\* str(datetime) as json.dump(..., default=str) writes it: the zero-padded
\* digit groups of "YYYY-MM-DD HH:..." (four digits of year, two each of
\* month, day and hour)
DatetimeStr(dt) ==
  << <<dt[1] \div 1000, (dt[1] \div 100) % 10, (dt[1] \div 10) % 10, dt[1] % 10>>,
     <<dt[2] \div 10, dt[2] % 10>>,
     <<dt[3] \div 10, dt[3] % 10>>,
     <<dt[4] \div 10, dt[4] % 10>> >>

\* int() of a group of two or of four decimal digits
Number(ds) ==
  IF Len(ds) = 2 THEN 10 * ds[1] + ds[2]
  ELSE 1000 * ds[1] + 100 * ds[2] + 10 * ds[3] + ds[4]

\* pydantic's datetime parser on the text DatetimeStr writes
ParseDatetime(t) == <<Number(t[1]), Number(t[2]), Number(t[3]), Number(t[4])>>

\* entry.model_dump() written by json.dump(..., default=str): published_at
\* becomes the text str(datetime)
DumpEntry(e) ==
  [e EXCEPT !.published_at = <<"str", DatetimeStr(e.published_at)>>]

\* variant: only the date of published_at is read back
ValidateEntry_date_only(d) ==
  [d EXCEPT !.published_at =
     <<Number(d.published_at[2][1]), Number(d.published_at[2][2]),
       Number(d.published_at[2][3]), 0>>]

\* PodcastEntry.model_validate on one element of the file: the date text
\* is parsed back into a datetime
ValidateEntry(d) ==
  [d EXCEPT !.published_at = ParseDatetime(d.published_at[2])]

\* the declared fields of PodcastEntry
EntryFields ==
  {"episode_id", "url", "platform", "title", "published_at", "name",
   "webvtt_url", "status", "episodes_file", "transcripts_file"}

\* whether PodcastEntry.model_validate accepts one element of the file
Validates(d) == DOMAIN d = EntryFields /\ d.published_at[1] = "str"

\* a JSON object that is not an entry: required fields are missing
BadElement == [title |-> "t1"]

\* variant: the elements that validate are kept, the others skipped
_load_skipping_invalid(file) ==
  IF file.state = "ok"
  THEN LET valid == SelectSeq(file.data, Validates)
       IN [i \in 1..Len(valid) |-> ValidateEntry(valid[i])]
  ELSE <<>>

\* PodcastList._load: a missing or unreadable file, or one with an element
\* that does not validate, leaves entries = []
_load(file) ==
  IF file.state = "ok" /\ \A i \in 1..Len(file.data) : Validates(file.data[i])
  THEN [i \in 1..Len(file.data) |-> ValidateEntry(file.data[i])]
  ELSE <<>>

\* PodcastList._save: the file after the attempt, and whether it raised
_save(file, entries, w) ==
  IF w = "ok"
  THEN [file |-> OkFile([i \in 1..Len(entries) |-> DumpEntry(entries[i])]),
        raised |-> FALSE]
  ELSE IF w = "open_failed" THEN [file |-> file, raised |-> TRUE]
  ELSE [file |-> CorruptFile, raised |-> TRUE]

\* one more failed write when the outcome is not "ok"
Fault(w) == IF w = "ok" THEN 0 ELSE 1

\* index of the first entry with this episode_id, 0 when there is none
IndexOfId(entries, episode_id) ==
  IF \E i \in 1..Len(entries) : entries[i].episode_id = episode_id
  THEN CHOOSE i \in 1..Len(entries) :
         /\ entries[i].episode_id = episode_id
         /\ \A j \in 1..(i - 1) : entries[j].episode_id # episode_id
  ELSE 0

\* index of the first entry whose url equals the command's url argument
IndexOfUrl(entries, url) ==
  IF \E i \in 1..Len(entries) : entries[i].url = url
  THEN CHOOSE i \in 1..Len(entries) :
         /\ entries[i].url = url
         /\ \A j \in 1..(i - 1) : entries[j].url # url
  ELSE 0

\* list.remove(entry): drops the first element equal to entry
RemoveAt(entries, i) ==
  SubSeq(entries, 1, i - 1) \o SubSeq(entries, i + 1, Len(entries))

RemoveEntry(entries, e) ==
  RemoveAt(entries, CHOOSE i \in 1..Len(entries) :
                      /\ entries[i] = e
                      /\ \A j \in 1..(i - 1) : entries[j] # e)

\* PodcastEntry.from_metadata
from_metadata(metadata, platform, episode_id) ==
  [episode_id |-> episode_id,
   url |-> NormUrl(metadata.url),
   platform |-> platform,
   title |-> metadata.title,
   published_at |-> metadata.published_at,
   name |-> metadata.name,
   webvtt_url |-> metadata.webvtt_url,
   status |-> "pending",
   episodes_file |-> EmptyPath,
   transcripts_file |-> EmptyPath]

\* variant: the entry keeps the empty path fields of from_metadata
add_entry_without_paths(entries, cfile, cache, obsidian, platform, metadata, existing_id, wc, ws) ==
  LET gen == generate_id(cache, platform, metadata.published_at, metadata.name, wc)
      called == existing_id = NoId
      episode_id == IF called THEN gen.id ELSE existing_id
      entry == from_metadata(metadata, platform, episode_id)
      entries2 == Append(entries, entry)
      saved == _save(cfile, entries2, ws)
  IN IF called /\ gen.raised
     THEN [entries |-> entries, entry |-> entry, catalog |-> cfile,
           cache |-> cache, gen |-> NoId, raised |-> TRUE]
     ELSE [entries |-> entries2,
           entry |-> entry,
           catalog |-> saved.file,
           cache |-> IF called THEN gen.file ELSE cache,
           gen |-> IF called THEN gen.id ELSE NoId,
           raised |-> saved.raised]

\* PodcastList.add_entry on the in-memory list `entries`: wc is the outcome
\* of the cache write, ws of the catalog write
add_entry(entries, cfile, cache, obsidian, platform, metadata, existing_id, wc, ws) ==
  LET gen == generate_id(cache, platform, metadata.published_at, metadata.name, wc)
      called == existing_id = NoId
      episode_id == IF called THEN gen.id ELSE existing_id
      entry == [from_metadata(metadata, platform, episode_id) EXCEPT
                  !.episodes_file = EpisodePath(obsidian, episode_id),
                  !.transcripts_file = get_transcript_path(obsidian, episode_id)]
      entries2 == Append(entries, entry)
      saved == _save(cfile, entries2, ws)
  IN IF called /\ gen.raised
     THEN [entries |-> entries, entry |-> entry, catalog |-> cfile,
           cache |-> cache, gen |-> NoId, raised |-> TRUE]
     ELSE [entries |-> entries2,
           entry |-> entry,
           catalog |-> saved.file,
           cache |-> IF called THEN gen.file ELSE cache,
           gen |-> IF called THEN gen.id ELSE NoId,
           raised |-> saved.raised]

\* variant: every value is taken as it is
Coerce_unchecked(field, raw) ==
  IF field \notin EntryFields THEN [ok |-> TRUE, v |-> <<>>]
  ELSE [ok |-> TRUE, v |-> raw[2]]

\* PodcastEntry.model_validate on one overridden field.  A raw value is
\* <<kind, value>>: a datetime or a text that parses as one is accepted for
\* published_at, a str for the text fields (on which no str is rejected);
\* anything else is rejected.  A keyword that is no field is ignored.
Coerce(field, raw) ==
  IF field \notin EntryFields THEN [ok |-> TRUE, v |-> <<>>]
  ELSE IF field = "published_at"
  THEN IF raw[1] \in {"datetime", "isotext"}
       THEN [ok |-> TRUE, v |-> raw[2]]
       ELSE [ok |-> FALSE, v |-> <<>>]
  ELSE IF raw[1] = "str"
       THEN [ok |-> TRUE, v |-> raw[2]]
       ELSE [ok |-> FALSE, v |-> <<>>]

\* variant: an unknown episode_id is an error
update_entry_strict(entries, cfile, episode_id, field, value, ws) ==
  LET i == IndexOfId(entries, episode_id)
      c == Coerce(field, value)
      updated == IF field \in EntryFields
                 THEN [entries[i] EXCEPT ![field] = c.v]
                 ELSE entries[i]
      entries2 == [entries EXCEPT ![i] = updated]
      saved == _save(cfile, entries2, ws)
  IN IF field = "episode_id" \/ i = 0 \/ ~c.ok
     THEN [entries |-> entries, catalog |-> cfile, raised |-> TRUE]
     ELSE [entries |-> entries2, catalog |-> saved.file, raised |-> saved.raised]

\* variant: the merged entry is appended instead of replacing the old one
update_entry_appending(entries, cfile, episode_id, field, value, ws) ==
  LET i == IndexOfId(entries, episode_id)
      c == Coerce(field, value)
      updated == IF field \in EntryFields
                 THEN [entries[i] EXCEPT ![field] = c.v]
                 ELSE entries[i]
      entries2 == Append(RemoveAt(entries, i), updated)
      saved == _save(cfile, entries2, ws)
  IN IF field = "episode_id"
     THEN [entries |-> entries, catalog |-> cfile, raised |-> TRUE]
     ELSE IF i = 0
     THEN [entries |-> entries, catalog |-> cfile, raised |-> FALSE]
     ELSE IF ~c.ok
     THEN [entries |-> entries, catalog |-> cfile, raised |-> TRUE]
     ELSE [entries |-> entries2, catalog |-> saved.file, raised |-> saved.raised]

\* PodcastList.update_entry(episode_id, **kwargs) with one keyword override
\* field=value on the in-memory list `entries`.  The keyword episode_id
\* cannot be passed: it collides with the positional parameter (TypeError
\* before the body runs).
update_entry(entries, cfile, episode_id, field, value, ws) ==
  LET i == IndexOfId(entries, episode_id)
      c == Coerce(field, value)
      updated == IF field \in EntryFields
                 THEN [entries[i] EXCEPT ![field] = c.v]
                 ELSE entries[i]
      entries2 == [entries EXCEPT ![i] = updated]
      saved == _save(cfile, entries2, ws)
  IN IF field = "episode_id"
     THEN [entries |-> entries, catalog |-> cfile, raised |-> TRUE]
     ELSE IF i = 0
     THEN [entries |-> entries, catalog |-> cfile, raised |-> FALSE]
     ELSE IF ~c.ok
     THEN [entries |-> entries, catalog |-> cfile, raised |-> TRUE]
     ELSE [entries |-> entries2, catalog |-> saved.file, raised |-> saved.raised]

\* the list written back to front
Reverse(entries) == [i \in 1..Len(entries) |-> entries[Len(entries) + 1 - i]]

\* variant: the list is written in reverse order
save_state_reversing(cfile, episode_id, status, error, ws) ==
  LET entries == _load(cfile)
      i == IndexOfId(entries, episode_id)
      entries2 == Reverse([entries EXCEPT ![i].status = status])
      saved == _save(cfile, entries2, ws)
  IN IF i = 0
     THEN [catalog |-> cfile, raised |-> FALSE]
     ELSE [catalog |-> saved.file, raised |-> saved.raised]

\* save_state(episode_id, status, error): loads its own PodcastList, sets
\* the status and saves; the error text is only logged
save_state(cfile, episode_id, status, error, ws) ==
  LET entries == _load(cfile)
      i == IndexOfId(entries, episode_id)
      entries2 == [entries EXCEPT ![i].status = status]
      saved == _save(cfile, entries2, ws)
  IN IF i = 0
     THEN [catalog |-> cfile, raised |-> FALSE]
     ELSE [catalog |-> saved.file, raised |-> saved.raised]

\* ------------------------------------------------------------ bookkeeping
\* episode identifiers a user can name on the command line
YoutubeBases == { BaseOf("youtube", m.published_at, m.name) : m \in Metas }

\* an identifier generate_id never issues (suffix 00)
UnknownId == FormatId(CHOOSE b \in YoutubeBases : TRUE, 0)

\* the --episode_id arguments tried in a state: every identifier in the
\* catalog file, and one that is not in it (all absent identifiers behave
\* alike)
NamedIds(file) ==
  UNION { { entries[i].episode_id : i \in 1..Len(entries) } :
          entries \in {_load(file)} } \cup {UnknownId}

Result(cmd, branch, outcome, id, gen, present) ==
  [cmd |-> cmd, branch |-> branch, outcome |-> outcome, id |-> id,
   gen |-> gen, present |-> present]

\* a fresh installation: no state file, no artifact; dist/config.json is
\* either absent (use_obsidian false) or was set up with --obsidian
Init ==
  /\ catalogFile = AbsentFile
  /\ cacheFile = AbsentFile
  /\ files = {}
  /\ useObsidian \in BOOLEAN
  /\ mem = <<>>
  /\ last = Result("none", "", "ok", NoId, NoId, FALSE)
  /\ genCalls = [b \in AllBases |-> 0]
  /\ faults = 0

\* ------------------------------------------------------------ add-podcast
\* cmd_add_podcast, URL already in the catalog and the user answers
\* anything but 'y': "Operation cancelled."
AddPodcastCancelled(url) ==
  /\ IndexOfUrl(_load(catalogFile), url) # 0
  /\ mem' = <<>>
  /\ last' = Result("add-podcast", "cancelled", "ok", NoId, NoId, TRUE)
  /\ UNCHANGED <<catalogFile, cacheFile, files, useObsidian,
                 genCalls, faults>>

\* whether the metadata fetch of cmd_add_podcast can succeed: the vimeo
\* branch builds Metadata without duration_seconds, which never validates,
\* and any other platform raises ValueError
FetchCanSucceed(platform) == platform = "youtube"

\* variant: the list without the existing entry is saved before the fetch
AddPodcastFetchFails_saving_removal(url, platform) ==
  /\ \E entries0 \in {_load(catalogFile)} :
     \E i \in {IndexOfUrl(entries0, url)} :
       /\ mem' = <<>>
       /\ catalogFile' = IF i # 0
                         THEN _save(catalogFile, RemoveAt(entries0, i), "ok").file
                         ELSE catalogFile
       /\ last' = Result("add-podcast",
                         IF i # 0 THEN "overwrite" ELSE "new", "raise",
                         NoId, NoId, i # 0)
  /\ UNCHANGED <<cacheFile, files, useObsidian, genCalls, faults>>

\* cmd_add_podcast, the metadata fetch raises (after the existing entry, if
\* any, was removed from the in-memory list only)
AddPodcastFetchFails(url, platform) ==
  /\ \E i \in {IndexOfUrl(_load(catalogFile), url)} :
       \* the existing entry is removed from podcast_list.entries, a list
       \* that is dropped when the exception leaves the command
       /\ mem' = <<>>
       /\ last' = Result("add-podcast",
                         IF i # 0 THEN "overwrite" ELSE "new", "raise",
                         NoId, NoId, i # 0)
  /\ UNCHANGED <<catalogFile, cacheFile, files, useObsidian,
                 genCalls, faults>>

\* cmd_add_podcast, metadata fetched: add_entry with a new identifier, or
\* with the identifier of the entry being overwritten
AddPodcastAdds(url, platform, m, wc, ws) ==
  /\ FetchCanSucceed(platform)
  /\ faults + Fault(wc) + Fault(ws) <= MaxFaults
  /\ \E entries0 \in {_load(catalogFile)} :
     \E i \in {IndexOfUrl(entries0, url)} :
       LET existing_id == IF i # 0 THEN entries0[i].episode_id ELSE NoId
           entries1 == IF i # 0 THEN RemoveEntry(entries0, entries0[i]) ELSE entries0
           metadata == [title |-> m.title, published_at |-> m.published_at,
                        name |-> m.name, webvtt_url |-> m.webvtt_url, url |-> url]
           base == BaseOf(platform, m.published_at, m.name)
       IN /\ existing_id # NoId => wc = "ok"
          /\ \E r \in {add_entry(entries1, catalogFile, cacheFile, useObsidian,
                                  platform, metadata, existing_id, wc, ws)} :
               /\ faults' = faults + Fault(wc) + Fault(ws)
               /\ mem' = IF r.raised THEN <<>> ELSE r.entries
               /\ catalogFile' = r.catalog
               /\ cacheFile' = r.cache
               /\ genCalls' = IF r.gen # NoId
                              THEN [genCalls EXCEPT ![base] = @ + 1]
                              ELSE genCalls
               /\ last' = Result("add-podcast",
                                 IF i # 0 THEN "overwrite" ELSE "new",
                                 IF r.raised THEN "raise" ELSE "ok",
                                 r.entry.episode_id, r.gen, i # 0)
  /\ UNCHANGED <<files, useObsidian>>

cmd_add_podcast(W) ==
  \/ \E url \in Urls : AddPodcastCancelled(url)
  \/ \E url \in Urls, platform \in Platforms : AddPodcastFetchFails(url, platform)
  \/ \E url \in Urls, platform \in Platforms, m \in Metas, wc \in W, ws \in W :
       AddPodcastAdds(url, platform, m, wc, ws)

\* -------------------------------------------------------- cleanup-podcast
\* variant: the identifier cache is reset although no entry was found
cmd_cleanup_episode_always_resets(episode_id, ws) ==
  /\ \E entries0 \in {_load(catalogFile)} :
     \E i \in {IndexOfId(entries0, episode_id)} :
       IF i = 0
       THEN /\ mem' = <<>>
            /\ ws = "ok"
            /\ last' = Result("cleanup-podcast", "not_found", "ok",
                              NoId, NoId, FALSE)
            /\ cacheFile' = reset_cache(cacheFile)
            /\ genCalls' = [b \in AllBases |-> 0]
            /\ UNCHANGED <<catalogFile, files>>
       ELSE \E entries1 \in {RemoveEntry(entries0, entries0[i])} :
            \E saved \in {_save(catalogFile, entries1, ws)} :
              /\ files' = files \ {entries0[i].episodes_file,
                                    entries0[i].transcripts_file}
              /\ mem' = IF saved.raised THEN <<>> ELSE entries1
              /\ catalogFile' = saved.file
              /\ IF saved.raised
                 THEN UNCHANGED <<cacheFile, genCalls>>
                 ELSE /\ cacheFile' = reset_cache(cacheFile)
                      /\ genCalls' = [b \in AllBases |-> 0]
              /\ last' = Result("cleanup-podcast", "removed",
                                IF saved.raised THEN "raise" ELSE "ok",
                                episode_id, NoId, TRUE)
  /\ faults + Fault(ws) <= MaxFaults
  /\ faults' = faults + Fault(ws)
  /\ UNCHANGED useObsidian

\* cmd_cleanup_episode
cmd_cleanup_episode(episode_id, ws) ==
  /\ \E entries0 \in {_load(catalogFile)} :
     \E i \in {IndexOfId(entries0, episode_id)} :
       IF i = 0
       THEN /\ mem' = <<>>
            /\ ws = "ok"
            /\ last' = Result("cleanup-podcast", "not_found", "ok",
                              NoId, NoId, FALSE)
            /\ UNCHANGED <<catalogFile, cacheFile, files, genCalls>>
       ELSE \E entries1 \in {RemoveEntry(entries0, entries0[i])} :
            \E saved \in {_save(catalogFile, entries1, ws)} :
              /\ files' = files \ {entries0[i].episodes_file,
                                    entries0[i].transcripts_file}
              /\ mem' = IF saved.raised THEN <<>> ELSE entries1
              /\ catalogFile' = saved.file
              /\ IF saved.raised
                 THEN UNCHANGED <<cacheFile, genCalls>>
                 ELSE /\ cacheFile' = reset_cache(cacheFile)
                      /\ genCalls' = [b \in AllBases |-> 0]
              /\ last' = Result("cleanup-podcast", "removed",
                                IF saved.raised THEN "raise" ELSE "ok",
                                episode_id, NoId, TRUE)
  /\ faults + Fault(ws) <= MaxFaults
  /\ faults' = faults + Fault(ws)
  /\ UNCHANGED useObsidian

\* -------------------------------------------------------- process-podcast
\* main(): cmd_process_podcast(args.episode_id, args.prompt_type) passes two
\* arguments to a function of one parameter; the TypeError is caught by
\* main's handler before any state is touched
MainProcessPodcast(episode_id) ==
  /\ last' = Result("process-podcast", "main_type_error", "raise", episode_id,
                    NoId, IndexOfId(_load(catalogFile), episode_id) # 0)
  /\ UNCHANGED <<catalogFile, cacheFile, files, useObsidian, mem, genCalls,
                 faults>>

\* variant: the prompt call succeeds and save_state(episode_id) is reached
cmd_process_podcast_saves(episode_id, fetchOk) ==
  /\ \E i \in {IndexOfId(_load(catalogFile), episode_id)} :
       /\ i = 0 => fetchOk
       /\ last' = Result("process-podcast",
                         IF i = 0 THEN "not_found"
                         ELSE IF ~fetchOk THEN "fetch_failed"
                         ELSE "prompt_type_error",
                         "raise", episode_id, NoId, i # 0)
       /\ catalogFile' = IF i # 0 /\ fetchOk
                         THEN save_state(catalogFile, episode_id, "processing", "", "ok").catalog
                         ELSE catalogFile
  /\ mem' = <<>>
  /\ UNCHANGED <<cacheFile, files, useObsidian, genCalls, faults>>

\* cmd_process_podcast(episode_id): load, get_entry (ValueError when there
\* is no entry), fetcher.get_transcript (may raise), then
\* generate_atomic_prompts(title=..., ...), a call with keywords the function
\* (metadata, transcript_stats, cards_per_hour) does not accept: TypeError.
\* Every path leaves through the outer except, which logs and re-raises;
\* save_state and the inner try block are never reached.
cmd_process_podcast(episode_id, fetchOk) ==
  /\ \E i \in {IndexOfId(_load(catalogFile), episode_id)} :
       /\ i = 0 => fetchOk
       /\ last' = Result("process-podcast",
                         IF i = 0 THEN "not_found"
                         ELSE IF ~fetchOk THEN "fetch_failed"
                         ELSE "prompt_type_error",
                         "raise", episode_id, NoId, i # 0)
  /\ mem' = <<>>
  /\ UNCHANGED <<catalogFile, cacheFile, files, useObsidian, genCalls, faults>>

\* ------------------------------------------------------------ library call
\* save_state(episode_id, status, error) called directly (it is exported by
\* podcasts.lib); ws is the outcome of its catalog write
CallSaveState(episode_id, status, error, ws) ==
  /\ faults + Fault(ws) <= MaxFaults
  /\ \E st \in {save_state(catalogFile, episode_id, status, error, ws)} :
       /\ IndexOfId(_load(catalogFile), episode_id) = 0 => ws = "ok"
       /\ faults' = faults + Fault(ws)
       /\ catalogFile' = st.catalog
       /\ mem' = <<>>
       /\ last' = Result("save_state", status,
                         IF st.raised THEN "raise" ELSE "ok", episode_id, NoId,
                         IndexOfId(_load(catalogFile), episode_id) # 0)
  /\ UNCHANGED <<cacheFile, files, useObsidian, genCalls>>

\* error arguments of save_state: none, or a message
Errors == {"", "boom"}

\* keyword overrides tried with update_entry, each raw value tagged with its
\* Python type (the int 5 and the text 'soon' by their literals)
Overrides ==
  << [label |-> "transcripts_file=str", field |-> "transcripts_file",
      raw |-> <<"str", <<"notes", <<"t", ".md">> >> >>],
     [label |-> "status=int", field |-> "status", raw |-> <<"int", "5">>],
     [label |-> "published_at=isotext", field |-> "published_at",
      raw |-> <<"isotext", <<2024, 1, 1, 9>> >>],
     [label |-> "published_at=text", field |-> "published_at",
      raw |-> <<"text", <<"soon">> >>],
     [label |-> "note=str", field |-> "note", raw |-> <<"str", "x">>],
     [label |-> "episode_id=str", field |-> "episode_id", raw |-> <<"str", "x">>] >>

\* PodcastList().update_entry(episode_id, field=value): a catalog object is
\* constructed from the file and update_entry is called on it
CallUpdateEntry(episode_id, k) ==
  /\ \E entries0 \in {_load(catalogFile)} :
     \E u \in {update_entry(entries0, catalogFile, episode_id,
                            Overrides[k].field, Overrides[k].raw, "ok")} :
       /\ mem' = u.entries
       /\ catalogFile' = u.catalog
       /\ last' = Result("update_entry", Overrides[k].label,
                         IF u.raised THEN "raise" ELSE "ok", episode_id, NoId,
                         IndexOfId(entries0, episode_id) # 0)
  /\ UNCHANGED <<cacheFile, files, useObsidian, genCalls, faults>>

\* PodcastList(): __init__ sets entries = [] and calls _load, which catches
\* every exception of reading the file
ConstructPodcastList ==
  /\ mem' = _load(catalogFile)
  /\ last' = Result("PodcastList", catalogFile.state, "ok", NoId, NoId, FALSE)
  /\ UNCHANGED <<catalogFile, cacheFile, files, useObsidian, genCalls, faults>>

\* IDGenerator().generate_id(platform, published_at, name) called directly
CallGenerateId(platform, m) ==
  /\ genCalls[BaseOf(platform, m.published_at, m.name)] < MaxGenerated
  /\ \E g \in {generate_id(cacheFile, platform, m.published_at, m.name, "ok")} :
       /\ cacheFile' = g.file
       /\ genCalls' = IF g.raised THEN genCalls
                      ELSE [genCalls EXCEPT
                              ![BaseOf(platform, m.published_at, m.name)] = @ + 1]
       /\ last' = Result("generate_id", cacheFile.state,
                         IF g.raised THEN "raise" ELSE "ok", NoId, g.id, FALSE)
  /\ mem' = <<>>
  /\ UNCHANGED <<catalogFile, files, useObsidian, faults>>

\* ---------------------------------------------------------- specification
\* the command handlers and save_state called one after another, every file
\* write succeeding
Next ==
  \/ cmd_add_podcast({"ok"})
  \/ \E episode_id \in NamedIds(catalogFile), fetchOk \in BOOLEAN :
       cmd_process_podcast(episode_id, fetchOk)
  \/ \E episode_id \in NamedIds(catalogFile) : cmd_cleanup_episode(episode_id, "ok")
  \/ \E episode_id \in NamedIds(catalogFile), status \in Statuses :
       CallSaveState(episode_id, status, "", "ok")

Spec == Init /\ [][Next]_vars

\* the commands as main() dispatches them, with writes of the two state
\* files that can fail
NextCli ==
  \/ cmd_add_podcast(WriteOutcomes)
  \/ \E episode_id \in NamedIds(catalogFile) : MainProcessPodcast(episode_id)
  \/ \E episode_id \in NamedIds(catalogFile), ws \in WriteOutcomes :
       cmd_cleanup_episode(episode_id, ws)

SpecCli == Init /\ [][NextCli]_vars

\* add_entry on an empty installation, for state files that exist beforehand
SeedAdd ==
  add_entry(<<>>, AbsentFile, AbsentFile, FALSE, "youtube",
            [title |-> "t1", published_at |-> <<2024, 1, 1, 0>>,
             name |-> <<"A", " ", "b">>, webvtt_url |-> "",
             url |-> "https://yt/a"],
            NoId, "ok", "ok")

\* the entry it stored
SeedEntry == SeedAdd.entry

\* a catalog file that is JSON with an element that is no entry (left by
\* editing the file by hand)
EditedCatalog == OkFile(<<DumpEntry(SeedEntry), BadElement>>)

\* catalog files found at start-up: none, one that is not JSON, and one
\* that is JSON with an element that is no entry
InitLib ==
  /\ catalogFile \in {AbsentFile, CorruptFile, EditedCatalog}
  /\ cacheFile = AbsentFile
  /\ files = {}
  /\ useObsidian = FALSE
  /\ mem = <<>>
  /\ last = Result("none", "", "ok", NoId, NoId, FALSE)
  /\ genCalls = [b \in AllBases |-> 0]
  /\ faults = 0

\* the catalog operations called one after another by one program, every
\* file write succeeding
NextLib ==
  \/ \E url \in Urls, m \in Metas : AddPodcastAdds(url, "youtube", m, "ok", "ok")
  \/ \E episode_id \in NamedIds(catalogFile), fetchOk \in BOOLEAN :
       cmd_process_podcast(episode_id, fetchOk)
  \/ \E episode_id \in NamedIds(catalogFile), error \in Errors :
       CallSaveState(episode_id, "processing", error, "ok")
  \/ \E episode_id \in NamedIds(catalogFile), k \in 1..Len(Overrides) :
       CallUpdateEntry(episode_id, k)
  \/ ConstructPodcastList

SpecLib == InitLib /\ [][NextLib]_vars

\* an installation whose catalog file was damaged after the tool had added
\* the seed entry: the cache file still counts that entry's identifier
InitMalformed ==
  /\ catalogFile \in {CorruptFile, EditedCatalog}
  /\ cacheFile = SeedAdd.cache
  /\ files = {}
  /\ useObsidian = FALSE
  /\ mem = <<>>
  /\ last = Result("none", "", "ok", NoId, NoId, FALSE)
  /\ genCalls = [b \in AllBases |->
                   IF b = SeedEntry.episode_id[1] THEN 1 ELSE 0]
  /\ faults = 0

\* add-podcast (fetch succeeding, writes succeeding) and catalog
\* construction on that installation
NextMalformed ==
  \/ \E url \in Urls, m \in Metas : AddPodcastAdds(url, "youtube", m, "ok", "ok")
  \/ ConstructPodcastList

SpecMalformed == InitMalformed /\ [][NextMalformed]_vars

\* characters of the names tried with _clean_name: an upper-case and a
\* lower-case letter, a digit, and two that are not alphanumeric
NameChars == {"A", "b", "1", ".", " "}

\* all strings over NameChars of length at most n
RECURSIVE StringsUpTo(_)
StringsUpTo(n) ==
  IF n = 0 THEN {<<>>}
  ELSE LET S == StringsUpTo(n - 1)
       IN S \cup { Append(t, c) : t \in S, c \in NameChars }

\* "Dr. Jack Kruse", "Dr. Jack Kruse!!" and "X"
DrJackKruse ==
  <<"D", "r", ".", " ", "J", "a", "c", "k", " ", "K", "r", "u", "s", "e">>
DrJackKruseBang == DrJackKruse \o <<"!", "!">>
NameX == <<"X">>

\* the names tried with _clean_name
Names == StringsUpTo(MaxNameLen) \cup {DrJackKruse, DrJackKruseBang, NameX}

\* IDGenerator()._clean_name(name) called directly: last.id holds the
\* argument and last.gen the string returned
CallCleanName(name) ==
  /\ last' = Result("_clean_name", "", "ok", name, CleanName(name), FALSE)
  /\ UNCHANGED <<catalogFile, cacheFile, files, useObsidian, mem, genCalls,
                 faults>>

NextName == \E name \in Names : CallCleanName(name)

SpecName == Init /\ [][NextName]_vars

\* ------------------------------------------------- a held catalog object
\* the calls cmd_process_podcast makes after its prompt call, made by a
\* program that holds one PodcastList object (mem) across them:
\* PodcastList() at commands.py:76, save_state at 106, 130 and 138,
\* podcast_list.update_entry at 123 and 127

\* the path overrides of the two update_entry calls
PathOverrides ==
  << [label |-> "transcripts_file=str", field |-> "transcripts_file",
      raw |-> <<"str", <<"notes", <<"t", ".md">> >> >>],
     [label |-> "episodes_file=str", field |-> "episodes_file",
      raw |-> <<"str", <<"notes", <<"e", ".md">> >> >>] >>

\* save_state(episode_id, status) while the program keeps its PodcastList:
\* save_state works on a list of its own, the held one is not refreshed
HeldSaveState(episode_id, status) ==
  /\ \E st \in {save_state(catalogFile, episode_id, status, "", "ok")} :
       /\ catalogFile' = st.catalog
       /\ last' = Result("save_state", status,
                         IF st.raised THEN "raise" ELSE "ok", episode_id, NoId,
                         IndexOfId(_load(catalogFile), episode_id) # 0)
  /\ UNCHANGED <<cacheFile, files, useObsidian, mem, genCalls, faults>>

\* podcast_list.update_entry(episode_id, <path field>=...) on the held list
HeldUpdateEntry(episode_id, k) ==
  /\ \E u \in {update_entry(mem, catalogFile, episode_id,
                            PathOverrides[k].field, PathOverrides[k].raw, "ok")} :
       /\ mem' = u.entries
       /\ catalogFile' = u.catalog
       /\ last' = Result("update_entry", PathOverrides[k].label,
                         IF u.raised THEN "raise" ELSE "ok", episode_id, NoId,
                         IndexOfId(mem, episode_id) # 0)
  /\ UNCHANGED <<cacheFile, files, useObsidian, genCalls, faults>>

\* (one URL and the first status of the body keep the state space small)
NextHeld ==
  \/ \E m \in Metas : AddPodcastAdds("https://yt/a", "youtube", m, "ok", "ok")
  \/ ConstructPodcastList
  \/ \E episode_id \in NamedIds(catalogFile) :
       HeldSaveState(episode_id, "processing")
  \/ \E episode_id \in NamedIds(catalogFile), k \in 1..Len(PathOverrides) :
       HeldUpdateEntry(episode_id, k)

SpecHeld == Init /\ [][NextHeld]_vars

\* ------------------------------------------------------------------ main
\* --platform choices of add-podcast's argument parser
MainPlatforms == {"youtube", "vimeo"}

\* what the commands of main() leave in last.cmd
MainCommands ==
  {"add-podcast", "process-podcast", "cleanup-podcast", "config",
   "test-prompt", "help"}

\* variant: the handler's exception always ends in exit(1)
main_never_reraising(debug, handler) ==
  IF handler = "raise"
  THEN [code |-> 1, reraised |-> FALSE]
  ELSE [code |-> 0, reraised |-> FALSE]

\* main(), after the dispatch: an exception of the handler is logged, then
\* re-raised with --debug (the interpreter prints the traceback and ends
\* with status 1) and turned into exit(1) without; otherwise main returns
\* and the process ends with status 0
main(debug, handler) ==
  IF handler = "raise"
  THEN IF debug THEN [code |-> 1, reraised |-> TRUE]
       ELSE [code |-> 1, reraised |-> FALSE]
  ELSE [code |-> 0, reraised |-> FALSE]

\* main() is at its dispatch: no command of this process has run yet
AtDispatch == last.cmd \notin MainCommands

\* main() dispatching add-podcast
MainAddPodcast ==
  /\ AtDispatch
  /\ \/ \E url \in Urls : AddPodcastCancelled(url)
     \/ \E url \in Urls, platform \in MainPlatforms :
          AddPodcastFetchFails(url, platform)
     \/ \E url \in Urls, platform \in MainPlatforms, m \in Metas :
          AddPodcastAdds(url, platform, m, "ok", "ok")

\* main() dispatching process-podcast
MainProcess ==
  /\ AtDispatch
  /\ \E episode_id \in NamedIds(catalogFile) : MainProcessPodcast(episode_id)

\* main() dispatching cleanup-podcast
MainCleanup ==
  /\ AtDispatch
  /\ \E episode_id \in NamedIds(catalogFile) : cmd_cleanup_episode(episode_id, "ok")

\* main() dispatching config: --show prints; --reset deletes config.json;
\* --obsidian writes use_obsidian = true; the write of config.json can fail,
\* which cmd_configure logs and re-raises
MainConfig ==
  /\ AtDispatch
  /\ \E option \in {"show", "reset", "obsidian", "write_failed"} :
       /\ useObsidian' = IF option = "reset" THEN FALSE
                         ELSE IF option = "obsidian" THEN TRUE
                         ELSE useObsidian
       /\ last' = Result("config", option,
                         IF option = "write_failed" THEN "raise" ELSE "ok",
                         NoId, NoId, FALSE)
  /\ UNCHANGED <<catalogFile, cacheFile, files, mem, genCalls, faults>>

\* main() with --test-prompt: cmd_test_prompt calls generate_atomic_prompts
\* with keywords it does not accept (TypeError)
MainTestPrompt ==
  /\ AtDispatch
  /\ last' = Result("test-prompt", "prompt_type_error", "raise", NoId, NoId, FALSE)
  /\ UNCHANGED <<catalogFile, cacheFile, files, useObsidian, mem, genCalls,
                 faults>>

\* main() without a command: parser.print_help()
MainHelp ==
  /\ AtDispatch
  /\ last' = Result("help", "", "ok", NoId, NoId, FALSE)
  /\ UNCHANGED <<catalogFile, cacheFile, files, useObsidian, mem, genCalls,
                 faults>>

\* main() after the handler has returned or raised: how the process ends
MainExit(debug) ==
  /\ ~AtDispatch
  /\ last' = [cmd |-> "main", command |-> last.cmd, handler |-> last.outcome,
              debug |-> debug, exit |-> main(debug, last.outcome)]
  /\ UNCHANGED <<catalogFile, cacheFile, files, useObsidian, mem, genCalls,
                 faults>>

\* one invocation of the tool after another, each running main() to its end
NextMain ==
  \/ MainAddPodcast
  \/ MainProcess
  \/ MainCleanup
  \/ MainConfig
  \/ MainTestPrompt
  \/ MainHelp
  \/ \E debug \in BOOLEAN : MainExit(debug)

SpecMain == Init /\ [][NextMain]_vars

\* ------------------------------------------------------- YouTube speakers
\* Python's None in a field that otherwise holds text
None == "<None>"

\* Speaker(name=..., title=..., role=...)
Speaker(name, title, role) == [name |-> name, title |-> title, role |-> role]

\* the values of dist/podcast_configs.json, in the order of the file: none,
\* one podcast, or two podcasts of which the second has a host without title
TestConfig ==
  [channel_id |-> "UC123456789", name |-> "Test Podcast",
   host |-> [name |-> "Test Host", title |-> "Dr.", role |-> "Host"]]
OtherConfig ==
  [channel_id |-> "UC2", name |-> "Other Podcast",
   host |-> [name |-> "Other Host", title |-> None, role |-> "Moderator"]]
ConfigFiles == {<<>>, <<TestConfig>>, <<TestConfig, OtherConfig>>}

\* channelId values of a snippet (None when the key is missing)
ChannelIds == {None, "UC123456789", "UC2", "UNKNOWN123"}

\* the channel argument: None, or a channel resource with its title
Channels == {None, "Test Channel", "Renamed Channel"}

\* a title of n characters: the alphabet repeated
TitleOfLen(n) == [i \in 1..n |-> LowerCase[((i - 1) % 26) + 1]]

\* video titles of every length up to MaxTitleLen
Titles == { TitleOfLen(n) : n \in 0..MaxTitleLen }

\* YouTubeFetcher._get_podcast_config: the first config with this
\* channel_id, or None
NoConfig == [channel_id |-> None]
_get_podcast_config(configs, channel_id) ==
  IF \E i \in 1..Len(configs) : configs[i].channel_id = channel_id
  THEN configs[CHOOSE i \in 1..Len(configs) :
                 /\ configs[i].channel_id = channel_id
                 /\ \A j \in 1..(i - 1) : configs[j].channel_id # channel_id]
  ELSE NoConfig

\* variant: the title is cut after 20 characters
_extract_speakers_cutting_at_20(configs, snippet, channel) ==
  LET config == IF snippet.channelId # None
                THEN _get_podcast_config(configs, snippet.channelId)
                ELSE NoConfig
      host == IF config # NoConfig
              THEN Speaker(config.host.name, config.host.title, config.host.role)
              ELSE Speaker(IF channel # None THEN channel ELSE snippet.channelTitle,
                           None, "Host")
      title == snippet.title
      guest_name == IF Len(title) > 20
                    THEN SubSeq(title, 1, 20) \o <<".", ".", ".">>
                    ELSE title
  IN [host |-> host, guest |-> Speaker(guest_name, None, "Guest")]

\* YouTubeFetcher._extract_speakers(snippet, channel) of a fetcher whose
\* self.configs is `configs`
_extract_speakers(configs, snippet, channel) ==
  LET config == IF snippet.channelId # None
                THEN _get_podcast_config(configs, snippet.channelId)
                ELSE NoConfig
      host == IF config # NoConfig
              THEN Speaker(config.host.name, config.host.title, config.host.role)
              ELSE Speaker(IF channel # None THEN channel ELSE snippet.channelTitle,
                           None, "Host")
      title == snippet.title
      guest_name == IF Len(title) > 20
                    THEN SubSeq(title, 1, 17) \o <<".", ".", ".">>
                    ELSE title
  IN [host |-> host, guest |-> Speaker(guest_name, None, "Guest")]

\* _extract_speakers called directly: last.id holds the arguments (with the
\* fetcher's configs) and last.gen the pair returned
CallExtractSpeakers(configs, channelId, title, channel) ==
  /\ \E snippet \in {[title |-> title, channelId |-> channelId,
                      channelTitle |-> "Test Channel"]} :
       last' = Result("_extract_speakers", "", "ok",
                      [configs |-> configs, snippet |-> snippet, channel |-> channel],
                      _extract_speakers(configs, snippet, channel),
                      \E i \in 1..Len(configs) : configs[i].channel_id = channelId)
  /\ UNCHANGED <<catalogFile, cacheFile, files, useObsidian, mem, genCalls,
                 faults>>

NextSpeakers ==
  \E configs \in ConfigFiles, channelId \in ChannelIds, title \in Titles,
     channel \in Channels :
    CallExtractSpeakers(configs, channelId, title, channel)

SpecSpeakers == Init /\ [][NextSpeakers]_vars

\* cache files found at start-up: none, one that is not JSON, and one that
\* is JSON but no object
InitGen ==
  /\ catalogFile = AbsentFile
  /\ cacheFile \in {AbsentFile, CorruptFile, OkFile(NotADict)}
  /\ files = {}
  /\ useObsidian = FALSE
  /\ mem = <<>>
  /\ last = Result("none", "", "ok", NoId, NoId, FALSE)
  /\ genCalls = [b \in AllBases |-> 0]
  /\ faults = 0

\* generate_id called on one freshly constructed IDGenerator after another
NextGen == \E platform \in Platforms, m \in Metas : CallGenerateId(platform, m)

SpecGen == InitGen /\ [][NextGen]_vars


\* ------------------------------------------------- concurrent invocations
\* two invocations of `podcasts add-podcast` running at the same time on the
\* same dist directory; nothing in the code locks either state file
Procs == {1, 2}

\* the --url of each invocation: two episodes that are not in the catalog
UrlOf(p) == IF p = 1 THEN "https://yt/a" ELSE "https://yt/b"

\* the other invocation
Other(p) == 3 - p

\* what one invocation holds in its own memory: where it is in
\* cmd_add_podcast, the Metadata its fetch returns, podcast_list.entries,
\* IDGenerator().cache, the identifier it was issued, and whether it raised
Invocation(m) ==
  [pc |-> "start", meta |-> m, entries |-> <<>>, cache |-> <<>>,
   id |-> NoId, raised |-> FALSE]

\* the Metadata of invocation p as add_entry receives it
MetadataOf(inv, p) ==
  [title |-> inv.meta.title, published_at |-> inv.meta.published_at,
   name |-> inv.meta.name, webvtt_url |-> inv.meta.webvtt_url, url |-> UrlOf(p)]

\* the entry add_entry appends for invocation p once its identifier is known
EntryOf(inv, p, obsidian) ==
  [from_metadata(MetadataOf(inv, p), "youtube", inv.id) EXCEPT
     !.episodes_file = EpisodePath(obsidian, inv.id),
     !.transcripts_file = get_transcript_path(obsidian, inv.id)]

\* a fresh installation and two invocations about to start
InitRace ==
  /\ catalogFile = AbsentFile
  /\ cacheFile = AbsentFile
  /\ files = {}
  /\ useObsidian \in BOOLEAN
  /\ mem \in [Procs -> {Invocation(m) : m \in Metas}]
  /\ last = Result("none", "", "ok", NoId, NoId, FALSE)
  /\ genCalls = [b \in AllBases |-> 0]
  /\ faults = 0

\* cmd_add_podcast: podcast_list = PodcastList() reads the catalog file; the
\* URL is not among the entries, so nothing is asked or removed
RaceLoad(p) ==
  /\ mem[p].pc = "start"
  /\ mem' = [mem EXCEPT ![p].pc = "loaded", ![p].entries = _load(catalogFile)]
  /\ UNCHANGED <<catalogFile, cacheFile, files, useObsidian, last, genCalls,
                 faults>>

\* add_entry: IDGenerator() reads the cache file into self.cache
RaceConstructGenerator(p) ==
  /\ mem[p].pc = "loaded"
  /\ mem' = [mem EXCEPT ![p].pc = "constructed",
                        ![p].cache = _load_cache(cacheFile)]
  /\ UNCHANGED <<catalogFile, cacheFile, files, useObsidian, last, genCalls,
                 faults>>

\* generate_id on the cache read at construction: the count of the base is
\* raised in self.cache, self.cache is written over the cache file, and the
\* identifier is returned
RaceGenerateId(p, wc) ==
  /\ mem[p].pc = "constructed"
  /\ faults + Fault(wc) <= MaxFaults
  /\ LET base == BaseOf("youtube", mem[p].meta.published_at, mem[p].meta.name)
         count == CacheGet(mem[p].cache, base) + 1
         cache2 == CachePut(mem[p].cache, base, count)
     IN /\ cacheFile' = _save_cache(cacheFile, cache2, wc)
        /\ mem' = [mem EXCEPT ![p].pc = "issued", ![p].cache = cache2,
                              ![p].id = FormatId(base, count)]
        /\ genCalls' = [genCalls EXCEPT ![base] = @ + 1]
  /\ faults' = faults + Fault(wc)
  /\ UNCHANGED <<catalogFile, files, useObsidian, last>>

\* variant: the catalog file is read again and the entry appended to that
RaceSave_reloading(p, ws) ==
  /\ mem[p].pc = "issued"
  /\ faults + Fault(ws) <= MaxFaults
  /\ LET entries2 == Append(_load(catalogFile), EntryOf(mem[p], p, useObsidian))
         saved == _save(catalogFile, entries2, ws)
     IN /\ catalogFile' = saved.file
        /\ mem' = [mem EXCEPT ![p].pc = "done", ![p].entries = entries2,
                              ![p].raised = saved.raised]
        /\ last' = Result("add-podcast", "new",
                          IF saved.raised THEN "raise" ELSE "ok",
                          mem[p].id, mem[p].id, FALSE)
  /\ faults' = faults + Fault(ws)
  /\ UNCHANGED <<cacheFile, files, useObsidian, genCalls>>

\* add_entry: the entry is appended to the list this invocation loaded and
\* _save writes that list over the catalog file; the command then returns,
\* or raises when the write failed
RaceSave(p, ws) ==
  /\ mem[p].pc = "issued"
  /\ faults + Fault(ws) <= MaxFaults
  /\ LET entries2 == Append(mem[p].entries, EntryOf(mem[p], p, useObsidian))
         saved == _save(catalogFile, entries2, ws)
     IN /\ catalogFile' = saved.file
        /\ mem' = [mem EXCEPT ![p].pc = "done", ![p].entries = entries2,
                              ![p].raised = saved.raised]
        /\ last' = Result("add-podcast", "new",
                          IF saved.raised THEN "raise" ELSE "ok",
                          mem[p].id, mem[p].id, FALSE)
  /\ faults' = faults + Fault(ws)
  /\ UNCHANGED <<cacheFile, files, useObsidian, genCalls>>

\* the steps of the two invocations in any order
NextRace ==
  \/ \E p \in Procs : RaceLoad(p)
  \/ \E p \in Procs : RaceConstructGenerator(p)
  \/ \E p \in Procs, wc \in WriteOutcomes : RaceGenerateId(p, wc)
  \/ \E p \in Procs, ws \in WriteOutcomes : RaceSave(p, ws)

SpecRace == InitRace /\ [][NextRace]_vars


\* ------------------------------------------------------------- properties
\* the entry list a freshly constructed PodcastList reads from the file
Catalog == _load(catalogFile)

\* the last command was an add-podcast that returned normally from add_entry
AddReturned ==
  /\ last.cmd = "add-podcast"
  /\ last.branch \in {"new", "overwrite"}
  /\ last.outcome = "ok"

\* C1: after any sequence of add-podcast and cleanup-podcast commands, no
\* two entries of the catalog have the same episode_id.
C1_UniqueEpisodeIds ==
  \A i, j \in 1..Len(Catalog) :
    i # j => Catalog[i].episode_id # Catalog[j].episode_id

\* C2: with no reset_cache in between, the k-th generate_id call for a base
\* (through freshly constructed generators) returns the base with suffix k
\* padded to two digits, and the stored count of a base never decreases.
C2_KthCallReturnsSuffixK ==
  [][ /\ last'.gen # NoId =>
           last'.gen = FormatId(last'.gen[1], genCalls'[last'.gen[1]])
      /\ ~(last'.cmd = "cleanup-podcast" /\ last'.branch = "removed") =>
           \A b \in AllBases :
             CacheGet(_load_cache(cacheFile'), b) >= CacheGet(_load_cache(cacheFile), b)
    ]_vars

\* C6: generate_id returns no identifier whose count was not persisted: when
\* an identifier has been returned, the cache file stores its count.
C6_ReturnedCountIsPersisted ==
  last.gen # NoId =>
    /\ cacheFile.state = "ok"
    /\ last.gen = FormatId(last.gen[1], CacheGet(cacheFile.data, last.gen[1]))

\* C7: reset_cache (run by a completed cleanup-podcast) leaves no cache file
\* and no base key, and the first generate_id call for any base after it
\* returns that base with suffix 01.
C7_ResetRestartsAtOne ==
  /\ (last.cmd = "cleanup-podcast" /\ last.branch = "removed" /\ last.outcome = "ok")
       => /\ cacheFile = AbsentFile
          /\ \A b \in AllBases : CacheGet(_load_cache(cacheFile), b) = 0
  /\ (last.gen # NoId /\ genCalls[last.gen[1]] = 1)
       => last.gen = <<last.gen[1], <<0, 1>> >>

\* C7 witness: without any failed write, an identifier with suffix 01 has
\* just been issued for a base that already has an entry with that very
\* identifier in the catalog, i.e. the base was used before the reset.
C7_Witness ==
  /\ faults = 0
  /\ last.gen # NoId
  /\ genCalls[last.gen[1]] = 1
  /\ last.gen[2] = <<0, 1>>
  /\ Cardinality({ i \in 1..Len(Catalog) : Catalog[i].episode_id = last.gen }) = 2

\* C8: an add-podcast overwrite gives the new entry the identifier of the
\* entry it replaces, does not call the generator (cache file unchanged),
\* stores status pending, and leaves exactly one entry with that identifier
\* and as many entries as before.
C8_OverwriteKeepsOneEntry ==
  [][ (last'.cmd = "add-podcast" /\ last'.branch = "overwrite" /\ last'.outcome = "ok")
      => LET old == _load(catalogFile)
             new == _load(catalogFile')
             e == new[Len(new)]
         IN /\ e.episode_id = old[IndexOfUrl(old, e.url)].episode_id
            /\ last'.gen = NoId
            /\ cacheFile' = cacheFile
            /\ e.status = "pending"
            /\ Cardinality({ i \in 1..Len(new) :
                             new[i].episode_id = e.episode_id }) = 1
            /\ Len(new) = Len(old)
    ]_vars

\* C9: after add_entry returns entry e, get_entry(e.episode_id) on the same
\* catalog object and on one freshly loaded from the file finds an entry with
\* that identifier whose two paths are non-empty and end with <id>.md and
\* <id>_transcript.md; e is the last element and the file holds the list.
C9_AddThenGet ==
  AddReturned =>
    LET i1 == IndexOfId(mem, last.id)
        i2 == IndexOfId(Catalog, last.id)
    IN /\ i1 # 0 /\ i2 # 0
       /\ \A g \in {mem[i1], Catalog[i2]} :
            /\ g.episode_id = last.id
            /\ g.episodes_file # EmptyPath
            /\ g.episodes_file[2] = <<last.id, ".md">>
            /\ g.transcripts_file # EmptyPath
            /\ g.transcripts_file[2] = <<last.id, "_transcript", ".md">>
       /\ mem[Len(mem)].episode_id = last.id
       /\ mem[Len(mem)].status = "pending"
       /\ Catalog = mem

\* C9 witness: add_entry has just returned a second entry with a newly
\* generated identifier.
C9_Witness ==
  /\ AddReturned
  /\ last.branch = "new"
  /\ Len(mem) = 2
  /\ last.gen = mem[2].episode_id

\* C10 (as stated): a path field of an entry is empty until its artifact has
\* been generated, so a non-empty path names a file that exists.
C10_PathsEmptyUntilGenerated ==
  \A i \in 1..Len(Catalog) :
    /\ Catalog[i].episodes_file # EmptyPath => Catalog[i].episodes_file \in files
    /\ Catalog[i].transcripts_file # EmptyPath => Catalog[i].transcripts_file \in files

\* C10 (amended): both path fields of every entry are set from the moment
\* the entry is added: they are non-empty target paths whose file names are
\* <id>.md and <id>_transcript.md, whether or not the files exist.
C10_PathsSetWhenAdded ==
  \A i \in 1..Len(Catalog) :
    /\ Catalog[i].episodes_file # EmptyPath
    /\ Catalog[i].transcripts_file # EmptyPath
    /\ Catalog[i].episodes_file[2] = <<Catalog[i].episode_id, ".md">>
    /\ Catalog[i].transcripts_file[2] =
         <<Catalog[i].episode_id, "_transcript", ".md">>

\* C10 witness: an entry that was added and never processed, whose artifact
\* files do not exist.
C10_Witness ==
  /\ AddReturned
  /\ files = {}
  /\ Len(Catalog) = 1
  /\ Catalog[1].status = "pending"
  /\ Catalog[1].episodes_file # EmptyPath

\* the catalog file lists the same identifiers in the same order before and
\* after the step
SameIds ==
  LET old == _load(catalogFile)
      new == _load(catalogFile')
  IN /\ Len(new) = Len(old)
     /\ \A i \in 1..Len(old) : new[i].episode_id = old[i].episode_id

\* the step is one of the three commands, and not an add-podcast overwrite
CommandStep ==
  /\ last'.cmd \in {"add-podcast", "process-podcast", "cleanup-podcast"}
  /\ ~(last'.cmd = "add-podcast" /\ last'.branch = "overwrite")

StatusSteps ==
  { <<"pending", "processing">>, <<"processing", "complete">>,
    <<"processing", "error">> }

C5_ProcessEndsCompleteOrError ==
  (last.cmd = "process-podcast" /\ last.present)
    => LET i == IndexOfId(Catalog, last.id)
       IN /\ i # 0
          /\ Catalog[i].status = IF last.outcome = "ok" THEN "complete" ELSE "error"

\* the override of the update_entry call that last.branch names
LastOverride(l) ==
  Overrides[CHOOSE k \in 1..Len(Overrides) : Overrides[k].label = l.branch]

\* the episode_id values of the entries a catalog file loads to, in order
IdsOf(file) == [i \in 1..Len(_load(file)) |-> _load(file)[i].episode_id]

\* C11: update_entry on an episode_id of the catalog replaces the entry at
\* its list position with the merged entry (the overridden field has the new
\* value, every other field its old one), keeps the list length and all
\* other entries, and the catalog file holds the resulting list on return.
C11_UpdateReplacesInPlace ==
  [][ (last'.cmd = "update_entry" /\ last'.present /\ last'.outcome = "ok")
      => LET old == _load(catalogFile)
             i == IndexOfId(old, last'.id)
             o == LastOverride(last')
         IN /\ Len(mem') = Len(old)
            /\ \A j \in 1..Len(old) : j # i => mem'[j] = old[j]
            /\ \A f \in EntryFields \ {o.field} : mem'[i][f] = old[i][f]
            /\ o.field \in EntryFields => mem'[i][o.field] = o.raw[2]
            /\ _load(catalogFile') = mem'
    ]_vars

\* C11 witness: update_entry has returned after overriding published_at of
\* the second of two entries, the one fetched with title t1.
C11_Witness ==
  /\ last.cmd = "update_entry"
  /\ last.branch = "published_at=isotext"
  /\ last.outcome = "ok"
  /\ Len(mem) = 2
  /\ mem[2].episode_id = last.id
  /\ mem[1].episode_id # last.id
  /\ mem[2].title = "t1"
  /\ mem[2].published_at = <<2024, 1, 1, 9>>

\* C12: update_entry on an episode_id that is not in the catalog raises
\* nothing and leaves the in-memory list and the catalog file as they were
\* (whatever the override; a call that passes episode_id twice never enters
\* update_entry).
C12_UpdateAbsentIsNoOp ==
  [][ (last'.cmd = "update_entry" /\ ~last'.present
         /\ last'.branch # "episode_id=str")
      => /\ last'.outcome = "ok"
         /\ mem' = _load(catalogFile)
         /\ catalogFile' = catalogFile
    ]_vars

\* C12 witness: update_entry with a transcripts_file override has returned
\* for an identifier that none of the catalog's entries has.
C12_Witness ==
  /\ last.cmd = "update_entry"
  /\ last.branch = "transcripts_file=str"
  /\ ~last.present
  /\ last.outcome = "ok"
  /\ Len(Catalog) = 2
  /\ mem = Catalog

\* C13: update_entry with an override whose value violates the typing of
\* its field (a number for status, a text that is no date for published_at)
\* raises, and leaves the in-memory list and the catalog file as they were.
C13_BadOverrideRejected ==
  [][ (last'.cmd = "update_entry" /\ last'.present
         /\ last'.branch \in {"status=int", "published_at=text"})
      => IF last'.outcome = "raise"
         THEN mem' = _load(catalogFile) /\ catalogFile' = catalogFile
         ELSE FALSE
    ]_vars

\* C13 witness: update_entry has raised for a published_at override that is
\* no date, on an entry of the catalog.
C13_Witness ==
  /\ last.cmd = "update_entry"
  /\ last.branch = "published_at=text"
  /\ last.present
  /\ last.outcome = "raise"
  /\ Len(mem) = 2
  /\ mem = Catalog

\* C14: update_entry (whatever the override), save_state and process-podcast
\* leave the sequence of episode_id values of the catalog file unchanged,
\* and an add-podcast overwrite stores the new entry under the identifier of
\* the entry it replaces.
C14_EpisodeIdImmutable ==
  [][ /\ last'.cmd \in {"update_entry", "save_state", "process-podcast"}
           => IdsOf(catalogFile') = IdsOf(catalogFile)
      /\ (last'.cmd = "add-podcast" /\ last'.branch = "overwrite"
            /\ last'.outcome = "ok")
           => LET old == _load(catalogFile)
                  new == _load(catalogFile')
              IN new[Len(new)].episode_id =
                   old[IndexOfUrl(old, new[Len(new)].url)].episode_id
    ]_vars

\* C14 witness: update_entry was called with an episode_id keyword on an
\* entry of a two-entry catalog, and the identifiers are still distinct.
C14_Witness ==
  /\ last.cmd = "update_entry"
  /\ last.branch = "episode_id=str"
  /\ last.present
  /\ Len(Catalog) = 2
  /\ Catalog[1].episode_id # Catalog[2].episode_id

\* C15: save_state is idempotent: after a save_state call has returned, the
\* same call again (same episode_id, same status) would write a catalog file
\* with the same content, and a save_state step that repeats the step before
\* it leaves the catalog file's content as it was.
C15_SaveStateIdempotent ==
  [][ (last'.cmd = "save_state" /\ last'.outcome = "ok")
      => /\ save_state(catalogFile', last'.id, last'.branch, "", "ok").catalog
              = catalogFile'
         /\ (last.cmd = "save_state" /\ last.outcome = "ok"
               /\ last.id = last'.id /\ last.branch = last'.branch)
              => catalogFile' = catalogFile
    ]_vars

\* C15 witness: save_state has set the second of two entries to "error"
\* while the first one is still pending.
C15_Witness ==
  /\ last.cmd = "save_state"
  /\ last.branch = "error"
  /\ last.present
  /\ last.outcome = "ok"
  /\ Len(Catalog) = 2
  /\ Catalog[2].episode_id = last.id
  /\ Catalog[2].status = "error"
  /\ Catalog[1].status = "pending"

\* C16: save_state(episode_id, status, error) changes only the status field
\* of the entry with that episode_id: every other field of it, every other
\* entry and the order of the entries in the catalog file stay, no entry
\* gains a field for the error, and the file written is the same with and
\* without an error text.  For an episode_id not in the catalog the file is
\* left as it was.
C16_SaveStateChangesOnlyStatus ==
  [][ last'.cmd = "save_state"
      => LET old == _load(catalogFile)
             new == _load(catalogFile')
             i == IndexOfId(old, last'.id)
         IN /\ \A error \in Errors :
                 save_state(catalogFile, last'.id, last'.branch, error, "ok").catalog
                   = catalogFile'
            /\ i = 0 => catalogFile' = catalogFile
            /\ i # 0 =>
                 /\ Len(new) = Len(old)
                 /\ \A j \in 1..Len(old) : j # i => new[j] = old[j]
                 /\ new[i] = [old[i] EXCEPT !.status = last'.branch]
                 /\ \A j \in 1..Len(catalogFile'.data) :
                      DOMAIN catalogFile'.data[j] = EntryFields
    ]_vars

\* C16 witness: save_state has set the first of two entries to "processing";
\* the second one is still pending.
C16_Witness ==
  /\ last.cmd = "save_state"
  /\ last.branch = "processing"
  /\ last.present
  /\ Len(Catalog) = 2
  /\ Catalog[1].episode_id = last.id
  /\ Catalog[1].status = "processing"
  /\ Catalog[2].status = "pending"

\* C17: after cleanup-podcast has completed for an episode_id of the catalog,
\* the catalog file has no entry with that episode_id, all other entries are
\* kept in their order, the files named by the removed entry's episodes_file
\* and transcripts_file do not exist, and the identifier cache is empty with
\* its file deleted.
C17_CleanupRemovesEpisode ==
  [][ (last'.cmd = "cleanup-podcast" /\ last'.branch = "removed"
         /\ last'.outcome = "ok")
      => LET old == _load(catalogFile)
             new == _load(catalogFile')
             i == IndexOfId(old, last'.id)
         IN /\ IndexOfId(new, last'.id) = 0
            /\ new = RemoveAt(old, i)
            /\ old[i].episodes_file \notin files'
            /\ old[i].transcripts_file \notin files'
            /\ cacheFile' = AbsentFile
            /\ _load_cache(cacheFile') = <<>>
    ]_vars

\* C18: constructing the catalog never raises because of the catalog file:
\* with no file the entry list is empty, and with a file that is not JSON or
\* has an element that does not validate as an entry it is empty as well.
C18_ConstructNeverRaises ==
  last.cmd = "PodcastList"
    => /\ last.outcome = "ok"
       /\ (\/ catalogFile.state # "ok"
           \/ \E i \in 1..Len(catalogFile.data) : ~Validates(catalogFile.data[i]))
            => mem = <<>>

\* C18 witness: a catalog was constructed from a file whose first element is
\* a valid entry and whose second element is not, and its list is empty.
C18_Witness ==
  /\ last.cmd = "PodcastList"
  /\ last.outcome = "ok"
  /\ catalogFile.state = "ok"
  /\ Len(catalogFile.data) = 2
  /\ Validates(catalogFile.data[1])
  /\ ~Validates(catalogFile.data[2])
  /\ mem = <<>>

\* a cache file that does not hold a cache: not JSON, or JSON that is no
\* object
CorruptCache(file) ==
  \/ file.state = "corrupt"
  \/ file.state = "ok" /\ ~IsDict(file.data)

\* C19: constructing an IDGenerator never raises because of the cache file:
\* a corrupt or unreadable cache file is treated as an empty cache, so the
\* next generate_id, for any base, returns normally with suffix 01.
C19_CorruptCacheIsEmpty ==
  [][ (last'.cmd = "generate_id" /\ CorruptCache(cacheFile))
      => IF last'.outcome = "ok"
         THEN last'.gen[2] = Pad2(1)
         ELSE FALSE
    ]_vars

\* entry lists to save: the empty list, the list the last operation held in
\* memory, the list of the catalog file, and that list in reverse order
RoundTripLists == {<<>>, mem, Catalog, Reverse(Catalog)}

\* C20: round trip: saving a list of valid entries (the empty list included)
\* and constructing a new catalog from the file gives a list equal to the
\* saved one, field for field and in the same order; so after add_entry or
\* update_entry has returned, a new catalog holds the list they held.
C20_SaveLoadRoundTrip ==
  /\ \A entries \in RoundTripLists :
       _load(_save(catalogFile, entries, "ok").file) = entries
  /\ (AddReturned \/ last.cmd = "update_entry") => Catalog = mem

\* C20 witness: add_entry has saved a list of two entries, the second one
\* published at nine o'clock, and the file loads to the same list.
C20_Witness ==
  /\ AddReturned
  /\ Len(mem) = 2
  /\ mem[2].published_at = <<2024, 1, 1, 9>>
  /\ mem[1].published_at = <<2024, 1, 1, 0>>
  /\ Catalog = mem

\* C30: cleanup-podcast for an episode_id that is not in the catalog returns
\* without raising and changes nothing: the catalog file, the artifact files
\* and the identifier cache (which is not reset) are as they were.
C30_CleanupAbsentChangesNothing ==
  [][ (last'.cmd = "cleanup-podcast" /\ ~last'.present)
      => /\ last'.outcome = "ok"
         /\ catalogFile' = catalogFile
         /\ files' = files
         /\ cacheFile' = cacheFile
         /\ genCalls' = genCalls
    ]_vars

\* C30 witness: cleanup-podcast has returned for an identifier that is not
\* in the catalog, while the catalog has an entry and the cache file exists.
C30_Witness ==
  /\ last.cmd = "cleanup-podcast"
  /\ last.branch = "not_found"
  /\ last.outcome = "ok"
  /\ ~last.present
  /\ Len(Catalog) >= 1
  /\ cacheFile.state = "ok"

\* C27: when add-podcast targets a URL already in the catalog, the overwrite
\* is confirmed and the metadata fetch then fails (or the platform is not
\* supported), the command raises, the catalog file still holds the original
\* entry, unchanged, and the identifier cache is unchanged.  (No entry was
\* built in that case: last.id is empty.)
C27_FailedOverwriteKeepsEntry ==
  [][ (last'.cmd = "add-podcast" /\ last'.branch = "overwrite"
         /\ last'.id = NoId)
      => /\ last'.outcome = "raise"
         /\ last'.present
         /\ catalogFile' = catalogFile
         /\ \E i \in 1..Len(_load(catalogFile')) :
              _load(catalogFile')[i] \in
                { _load(catalogFile)[j] : j \in 1..Len(_load(catalogFile)) }
         /\ cacheFile' = cacheFile
    ]_vars

\* C27 witness: a confirmed overwrite has raised before add_entry, and the
\* catalog file and the cache file both still have content.
C27_Witness ==
  /\ last.cmd = "add-podcast"
  /\ last.branch = "overwrite"
  /\ last.outcome = "raise"
  /\ last.id = NoId
  /\ last.present
  /\ Len(Catalog) >= 1
  /\ cacheFile.state = "ok"

\* a catalog file that exists but does not load: not JSON, or JSON with an
\* element that does not validate
Malformed(file) ==
  \/ file.state = "corrupt"
  \/ file.state = "ok" /\ \E i \in 1..Len(file.data) : ~Validates(file.data[i])

\* C26: when the catalog file exists but is malformed, an add_entry after
\* loading it raises no error and rewrites the file with only the entry it
\* created: every element the unreadable file held is gone.
C26_MalformedCatalogDiscarded ==
  [][ (last'.cmd = "add-podcast" /\ last'.id # NoId /\ Malformed(catalogFile))
      => /\ last'.outcome = "ok"
         /\ catalogFile'.state = "ok"
         /\ Len(catalogFile'.data) = 1
         /\ _load(catalogFile') = mem'
         /\ Len(mem') = 1
         /\ mem'[1].episode_id = last'.id
         /\ \A j \in 1..Len(catalogFile.data) :
              catalogFile.data[j] # catalogFile'.data[1]
    ]_vars

\* C26 witness: the catalog file holds one entry only, with suffix 02: the
\* entry with suffix 01 of the same base was in the file that did not load.
C26_Witness ==
  /\ AddReturned
  /\ Len(Catalog) = 1
  /\ Catalog[1].episode_id = FormatId(SeedEntry.episode_id[1], 2)
  /\ catalogFile.state = "ok"
  /\ Len(catalogFile.data) = 1

\* number of underscores in a string
RECURSIVE Underscores(_)
Underscores(t) ==
  IF t = <<>> THEN 0
  ELSE (IF t[1] = "_" THEN 1 ELSE 0) + Underscores(Tail(t))

\* C23: _clean_name returns a lower-case string in which every run of
\* non-alphanumeric characters of the name has become one underscore, cut to
\* at most the first two underscore-separated tokens; "Dr. Jack Kruse" and
\* "Dr. Jack Kruse!!" give "jack_kruse", and "X" gives "x".
C23_CleanName ==
  last.cmd = "_clean_name"
    => /\ \A i \in 1..Len(last.gen) :
            \/ last.gen[i] = "_"
            \/ IsAlnum(last.gen[i]) /\ ToLower(last.gen[i]) = last.gen[i]
       /\ \A i \in 1..(Len(last.gen) - 1) :
            ~(last.gen[i] = "_" /\ last.gen[i + 1] = "_")
       /\ Underscores(last.gen) <= 1
       /\ last.id \in {DrJackKruse, DrJackKruseBang}
            => last.gen = <<"j", "a", "c", "k", "_", "k", "r", "u", "s", "e">>
       /\ last.id = NameX => last.gen = <<"x">>

\* C24: _extract_speakers returns a guest named by the video title itself
\* when the title has at most 20 characters and otherwise by its first 17
\* characters followed by '...', so the guest name never has more than 20
\* characters; the host is the configured host (name, title, role) when the
\* snippet's channelId matches a podcast config, and otherwise the channel
\* title with role Host.
C24_ExtractSpeakers ==
  last.cmd = "_extract_speakers"
    => LET title == last.id.snippet.title
           host == last.gen.host
           guest == last.gen.guest
           matching == { i \in 1..Len(last.id.configs) :
                           last.id.configs[i].channel_id = last.id.snippet.channelId }
       IN /\ Len(title) <= 20 => guest.name = title
          /\ Len(title) > 20 =>
               /\ Len(guest.name) = 20
               /\ \A i \in 1..17 : guest.name[i] = title[i]
               /\ \A i \in 18..20 : guest.name[i] = "."
          /\ Len(guest.name) <= 20
          /\ guest.role = "Guest"
          /\ matching # {} =>
               \E i \in matching :
                 /\ host.name = last.id.configs[i].host.name
                 /\ host.title = last.id.configs[i].host.title
                 /\ host.role = last.id.configs[i].host.role
          /\ matching = {} =>
               /\ host.name = IF last.id.channel # None THEN last.id.channel
                              ELSE last.id.snippet.channelTitle
               /\ host.role = "Host"

\* C24 witness: a title of 21 characters on a configured channel gave a guest
\* name of 20 characters and the configured host.
C24_Witness ==
  /\ last.cmd = "_extract_speakers"
  /\ Len(last.id.snippet.title) = 21
  /\ last.present
  /\ Len(last.gen.guest.name) = 20
  /\ last.gen.guest.name[20] = "."
  /\ last.gen.host.name = "Test Host"
  /\ last.gen.host.title = "Dr."

\* C22: for every command, when the handler raises, the process ends with
\* exit code 1 without --debug, and with --debug the exception is re-raised
\* to the caller; when the handler returns normally, or no command is given
\* and help is printed, the exit code is 0.
C22_ExitCodes ==
  last.cmd = "main"
    => /\ (last.handler = "raise" /\ ~last.debug)
            => last.exit = [code |-> 1, reraised |-> FALSE]
       /\ (last.handler = "raise" /\ last.debug) => last.exit.reraised
       /\ last.handler = "ok" => last.exit = [code |-> 0, reraised |-> FALSE]
       /\ last.command = "help" => last.exit.code = 0

\* C22 witness: with --debug, process-podcast has ended by re-raising the
\* handler's exception, with two entries in the catalog.
C22_Witness ==
  /\ last.cmd = "main"
  /\ last.command = "process-podcast"
  /\ last.handler = "raise"
  /\ last.debug
  /\ last.exit.reraised
  /\ Len(Catalog) = 2

\* C25: the update_entry calls that record transcripts_file and
\* episodes_file on the catalog object of process-podcast change only that
\* path field in the catalog file: every other field of every entry is as
\* the file had it, and a status "processing" that save_state wrote just
\* before is still the entry's status in the file.
C25_PathUpdateKeepsStatus ==
  [][ (last'.cmd = "update_entry" /\ last'.present /\ last'.outcome = "ok"
         /\ last'.branch \in {"transcripts_file=str", "episodes_file=str"})
      => LET old == _load(catalogFile)
             new == _load(catalogFile')
             i == IndexOfId(new, last'.id)
         IN /\ Len(new) = Len(old)
            /\ \A j \in 1..Len(new) : \A f \in EntryFields :
                 (j = i /\ f \in {"transcripts_file", "episodes_file"})
                   \/ new[j][f] = old[j][f]
            /\ (last.cmd = "save_state" /\ last.id = last'.id /\ last.present
                  /\ last.branch = "processing")
                 => new[i].status = "processing"
    ]_vars

\* C29: when add_entry fails after the identifier was issued (writing the
\* catalog file fails), the counter of that base stays advanced in the cache
\* file, so the next generate_id for the base hands out another identifier,
\* and the catalog file has no entry with the identifier that was issued.
C29_FailedAddKeepsCounter ==
  [][ (last'.cmd = "add-podcast" /\ last'.outcome = "raise" /\ last'.gen # NoId)
      => LET base == last'.gen[1]
             before == CacheGet(_load_cache(cacheFile), base)
             after == CacheGet(_load_cache(cacheFile'), base)
         IN /\ after = before + 1
            /\ FormatId(base, after + 1) # last'.gen
            /\ IndexOfId(_load(catalogFile'), last'.gen) = 0
    ]_vars

\* C21: two invocations that each load the catalog, add an entry and save
\* can interleave so that the file ends up with the last writer's list only.
\* Whenever an invocation saves without error, the catalog file is exactly
\* the list that invocation loaded plus its own entry: the entry of the
\* other invocation is in the file only if it was in the loaded list, so one
\* saved after the load is lost, and neither invocation raises.
C21_LastWriterWins ==
  [][ \A p \in Procs :
        (mem[p].pc = "issued" /\ mem'[p].pc = "done" /\ ~mem'[p].raised)
        => /\ _load(catalogFile') =
                Append(mem[p].entries, EntryOf(mem[p], p, useObsidian))
           /\ (IndexOfUrl(_load(catalogFile'), UrlOf(Other(p))) # 0)
                <=> (IndexOfUrl(mem[p].entries, UrlOf(Other(p))) # 0)
    ]_vars

\* both invocations have returned without an error and the catalog file
\* holds one entry only: the other one was written and then overwritten
C21_Witness ==
  /\ \A p \in Procs : mem[p].pc = "done" /\ ~mem[p].raised
  /\ faults = 0
  /\ Len(_load(catalogFile)) = 1
  /\ \E p \in Procs :
       /\ IndexOfUrl(_load(catalogFile), UrlOf(p)) = 1
       /\ IndexOfUrl(_load(catalogFile), UrlOf(Other(p))) = 0

\* C28: two invocations running add_entry at the same time for metadata with
\* the same base key, each with its own IDGenerator built from the shared
\* cache file and every write succeeding, are issued different identifiers.
C28_ConcurrentIdsDiffer ==
  ( /\ faults = 0
    /\ \A p \in Procs : mem[p].id # NoId
    /\ mem[1].id[1] = mem[2].id[1] )
  => mem[1].id # mem[2].id

====
